---- MODULE Spec2Model ----
(***************************************************************************)
(* Escrow payment gateway: the transaction lifecycle of api/verify.js      *)
(* (manual trigger, in-memory store, retention timers), the intake of      *)
(* api/transaction.js and the periodic worker of server.js.                *)
(*                                                                         *)
(* A JavaScript handler runs atomically between two awaits; every action   *)
(* below is one such run-to-completion segment.  A record of the store is  *)
(* an object on the heap (tx[id]) and the array `transactions` holds       *)
(* references: a suspended handler keeps writing to its object after a     *)
(* timer has spliced the reference out of the array.                       *)
(*                                                                         *)
(* api/verify.js and api/transaction.js each declare their own             *)
(* `transactions` array and api/verify.js never adds to its own.  The      *)
(* lifecycle is studied on the records the handler is asked about: its     *)
(* array starts with records as the intake stamps them (status pending).   *)
(* The write-only fields escrowVerification and forwardVerification are    *)
(* left out; of the stamps verifiedAt and forwardInitiatedAt, which no     *)
(* code reads, only whether they are set is kept (failedAt and completedAt *)
(* carry the clock).  Amounts are integers on which the fee of lines 73-74 *)
(* is exact; the rounding of the floating-point product is not modelled.   *)
(*                                                                         *)
(* The specifications share the variables: Spec (api/verify.js, with      *)
(* FairSpec adding timer fairness), SpecPolling (api/verify.js asked about *)
(* a record without end), SpecIntake (api/transaction.js; SpecIntakeSigned *)
(* with amounts of either sign), SpecGateway (api/transaction.js and       *)
(* api/verify.js together, each with its own array), SpecWorker           *)
(* (server.js), SpecManual (server.js with POST /api/verify/:id),          *)
(* SpecBatch (one run of processTransactions over a file of records),      *)
(* SpecListing (GET /api/transactions/:address), SpecVerifier (one call of *)
(* verifyTransaction on every gateway answer), SpecIds (api/transaction.js *)
(* with the id drawn as the code draws it), SpecTwoHash (the two-hash     *)
(* handler of api/health.js), SpecRace (server.js with a record already in *)
(* the file) and SpecTimers (the deletion timers of api/verify.js on a     *)
(* store of several records).                                              *)
(***************************************************************************)
EXTENDS Integers, Sequences, FiniteSets, Bags, TLC

\* ------------------------------------------------------------------ bounds
MaxIds    == 1        \* records held by the api/verify.js store
MaxPasses == 2        \* manual-trigger requests over a behaviour
MaxTicks  == 1        \* clock ticks of the window in which requests arrive
MaxIntakes == 52      \* accepted requests of api/transaction.js
MaxRuns   == 2        \* calls of processTransactions (server.js)
MaxPosts  == 1        \* accepted POST /api/transaction requests (server.js)
MaxSigned == 5        \* accepted requests when amounts of either sign arrive
MaxBlock  == 2        \* highest block a looked-up receipt was mined in
MaxList   == 2        \* records in the file when one run goes over it
MaxRandom == 2        \* distinct suffixes Math.random can give an id
MaxDrawn  == 3        \* accepted requests when ids are drawn
MaxStored == 2        \* records in the store when its timers fire

\* ------------------------------------------------- constants of verify.js
VERIFICATION_CONFIRMATIONS == 3
FEE_PERCENTAGE             == 1
FAILED_RETENTION_MS        == 300000
COMPLETED_RETENTION_MS     == 60000
TickMs                     == COMPLETED_RETENTION_MS

\* ------------------------------ constants of transaction.js and server.js
INTAKE_CAP == 50
SERVER_CAP == 1000

Ids    == 1..MaxIds
Unset  == 0 - 1                       \* an absent (undefined) numeric field

VARIABLES
  transactions,   \* api/verify.js: array of references, newest first
  tx,             \* heap: id -> transaction object
  passes,         \* the handler invocations in flight (a bag: two
                  \* invocations at the same point are interchangeable)
  started,        \* manual-trigger requests made so far
  response,       \* the last response sent by the handler
  timers,         \* pending setTimeout callbacks of api/verify.js
  now,            \* wall clock, ms
  walletKey,      \* CONFIG.ADMIN_PRIVATE_KEY is configured
  forwardCalls,   \* history: invocations of forwardToDestination per id
  broadcasts,     \* history: sendTransaction calls accepted by the network
  seen,           \* history: what the chain said in the handler's calls
  intakeStore,    \* api/transaction.js: its own `transactions` array
  intakeCount,    \* api/transaction.js: ids handed out so far
  intakeResp,     \* api/transaction.js: status code of the last response
  file,           \* server.js: content of data/transactions.json
  run,            \* server.js: one entry per call of processTransactions
  post,           \* server.js: one entry per POST /api/transaction
  sendCalls,      \* history: invocations of sendToDestination per id
  manual,         \* server.js: the POST /api/verify/:id request in progress
  probe,          \* one call of verifyTransaction: what the chain holds, the result
  listing         \* server.js: the last answer of GET /api/transactions/:address

varsEscrow == <<transactions, tx, passes, started, response, timers, now,
                forwardCalls, broadcasts, seen>>
varsIntake == <<intakeStore, intakeCount, intakeResp>>
varsWorker == <<file, run, post, sendCalls>>
varsAux == <<manual, probe, listing>>

vars == <<transactions, tx, passes, started, response, timers, now,
          walletKey, forwardCalls, broadcasts, seen, intakeStore, intakeCount, intakeResp,
          file, run, post, sendCalls, manual, probe, listing>>

\* --------------------------------------------------------------- helpers
\* faulty variant: the lookup goes to the object, not to the array
InStore_Heap(id) == id \in DOMAIN tx

\* transactions.find(tx => tx.id === txId), line 129
InStore(id) == \E i \in 1..Len(transactions) : transactions[i] = id

\* faulty variant: the index is not tested, and splice(-1, 1) takes the
\* last entry when the id is not found
RemoveById_Unguarded(arr, id) ==
  IF \E i \in 1..Len(arr) : arr[i] = id
  THEN LET k == CHOOSE i \in 1..Len(arr) :
                   arr[i] = id /\ \A j \in 1..(i - 1) : arr[j] # id
       IN  SubSeq(arr, 1, k - 1) \o SubSeq(arr, k + 1, Len(arr))
  ELSE SubSeq(arr, 1, Len(arr) - 1)

\* transactions.findIndex(tx => tx.id === txId) then splice(index, 1)
RemoveById(arr, id) ==
  IF \E i \in 1..Len(arr) : arr[i] = id
  THEN LET k == CHOOSE i \in 1..Len(arr) :
                   arr[i] = id /\ \A j \in 1..(i - 1) : arr[j] # id
       IN  SubSeq(arr, 1, k - 1) \o SubSeq(arr, k + 1, Len(arr))
  ELSE arr

\* ----------------------------------------------------- verifyTransaction
\* what the two gateway calls of one verifyTransaction call answer: no
\* receipt, or a receipt mined in block 0 or 1 with the chain at a height
\* around the threshold, or a transport error
NoReceipt == [present |-> FALSE, status |-> 0, blockNumber |-> 0]
Receipts  == {NoReceipt} \cup
             [present : {TRUE}, status : {0, 1}, blockNumber : {1}]
Heights   == 0..(VERIFICATION_CONFIRMATIONS + 1)
ChainAnswers ==
  [receipt : Receipts \ {NoReceipt}, currentBlock : Heights,
   throws : {FALSE}]
  \cup [receipt : {NoReceipt}, currentBlock : {0}, throws : BOOLEAN]

\* faulty variant: the threshold itself does not count as confirmed
verifyTransaction_Above(receipt, currentBlock, throws) ==
  IF throws THEN [verified |-> FALSE, status |-> "error"]
  ELSE IF ~receipt.present THEN [verified |-> FALSE, status |-> "pending"]
  ELSE IF receipt.status = 0 THEN [verified |-> FALSE, status |-> "failed"]
  ELSE IF currentBlock - receipt.blockNumber > VERIFICATION_CONFIRMATIONS
       THEN [verified |-> TRUE, status |-> "verified"]
       ELSE [verified |-> FALSE, status |-> "confirming"]

\* lines 31-62
verifyTransaction(receipt, currentBlock, throws) ==
  IF throws THEN [verified |-> FALSE, status |-> "error"]
  ELSE IF ~receipt.present THEN [verified |-> FALSE, status |-> "pending"]
  ELSE IF receipt.status = 0 THEN [verified |-> FALSE, status |-> "failed"]
  ELSE IF currentBlock - receipt.blockNumber >= VERIFICATION_CONFIRMATIONS
       THEN [verified |-> TRUE, status |-> "verified"]
       ELSE [verified |-> FALSE, status |-> "confirming"]

NoVerification == [verified |-> FALSE, status |-> "null"]

\* what the chain said, independently of how the code classifies it
ChainConfirmed(a) ==
  /\ ~a.throws
  /\ a.receipt.present
  /\ a.receipt.status = 1
  /\ a.currentBlock - a.receipt.blockNumber >= 3

ChainReverted(a) ==
  ~a.throws /\ a.receipt.present /\ a.receipt.status = 0

\* ------------------------------------------------------ the handler's tests
\* faulty variant: the escrow classification is not consulted
EscrowNewlyVerified_AnyClass(v, t) == t.status = "pending"

\* line 145
EscrowNewlyVerified(v, t) == v.verified /\ t.status = "pending"

\* faulty variant: a transport error counts as an on-chain failure
IsFailed_OrError(v) == v.status \in {"failed", "error"}

\* lines 153 and 246
IsFailed(v) == v.status = "failed"

\* faulty variant: a forward not yet confirmed is sent again
ShouldForward_Retry(t) == t.status \in {"verified", "forwarding_pending"}

\* faulty variant: without a wallet the forward step is passed over
ShouldForward_NeedsWallet(t) ==
  t.status = "verified" /\ t.forwardTxHash = 0 /\ walletKey

\* line 172
ShouldForward(t) == t.status = "verified" /\ t.forwardTxHash = 0

\* faulty variant: the forward hash is never looked at again
ShouldVerifyForward_Never(t) == FALSE

\* line 212
ShouldVerifyForward(t) == t.forwardTxHash # 0 /\ t.status = "forwarding_pending"

\* ---------------------------------------------------- the handler's writes
\* lines 146-148
MarkVerified(t) == [t EXCEPT !.status = "verified", !.verifiedAt = TRUE]

\* faulty variant: the failure is recorded but the status is left alone
MarkFailed_KeepStatus(t, msg) == [t EXCEPT !.error = msg, !.failedAt = now]

\* lines 154-156, 191-193, 247-249
MarkFailed(t, msg) ==
  [t EXCEPT !.status = "failed", !.error = msg, !.failedAt = now]

\* faulty variant: the record is not marked before the forward is awaited
MarkForwarding_Unmarked(t) == t

\* line 173
MarkForwarding(t) == [t EXCEPT !.status = "forwarding"]

\* lines 73-74
feeAmount(t)     == (t.amount * FEE_PERCENTAGE) \div 100

\* faulty variant: the fee is not deducted from what is forwarded
forwardAmount_Gross(t) == t.amount

forwardAmount(t) == t.amount - feeAmount(t)

\* forwardAmount.toString() (line 76) on a non-negative integer: its decimal
\* digits, most significant first
RECURSIVE toString(_)
toString(n) ==
  IF n < 10 THEN <<n>> ELSE Append(toString(n \div 10), n % 10)

\* ethers.parseEther (line 76) on a string of digits; the value is kept in
\* ether, the factor 10^18 to wei is left out
RECURSIVE parseEther(_)
parseEther(str) ==
  IF str = <<>> THEN 0
  ELSE 10 * parseEther(SubSeq(str, 1, Len(str) - 1)) + str[Len(str)]

\* faulty variant: a wallet is assumed to exist
initializeWallet_Always == TRUE

\* lines 18-29: the wallet, if ADMIN_PRIVATE_KEY is configured
initializeWallet == walletKey

\* faulty variant: the fee is not noted on the record
MarkForwardingPending_NoFee(t, hash) ==
  [t EXCEPT !.status = "forwarding_pending", !.forwardTxHash = hash,
            !.forwardedAmount = forwardAmount(t),
            !.forwardInitiatedAt = TRUE]

\* lines 179-183
MarkForwardingPending(t, hash) ==
  [t EXCEPT !.status = "forwarding_pending", !.forwardTxHash = hash,
            !.forwardedAmount = forwardAmount(t), !.feeKept = feeAmount(t),
            !.forwardInitiatedAt = TRUE]

\* lines 218-220
MarkCompleted(t) == [t EXCEPT !.status = "completed", !.completedAt = now]

\* setTimeout(..., 300000) at lines 160-166 and 197-203
ScheduleFailedDeletion(ts, id) ==
  ts \cup {[id |-> id, due |-> now + FAILED_RETENTION_MS]}

\* faulty variant: completion schedules nothing
ScheduleCompletedDeletion_None(ts, id) == ts

\* setTimeout(..., 60000) at lines 233-240
ScheduleCompletedDeletion(ts, id) ==
  ts \cup {[id |-> id, due |-> now + COMPLETED_RETENTION_MS]}

\* ================================================== api/transaction.js
\* request bodies: a missing field is "" (strings) or 0 (amount); status is
\* whatever the client put in the body
Bodies ==
  [senderAddress : {"", "0xA"}, destinationAddress : {"", "0xB"},
   amount : {0, 1}, escrowTxHash : {"", "0xE1"},
   status : {"none", "completed"}]

\* lines 24-25
MissingFields(b) ==
  \/ b.senderAddress = ""
  \/ b.destinationAddress = ""
  \/ b.amount = 0
  \/ b.escrowTxHash = ""

\* lines 33-35
Stamp(b, id) ==
  [id |-> id, status |-> "pending", senderAddress |-> b.senderAddress,
   destinationAddress |-> b.destinationAddress, amount |-> b.amount,
   escrowTxHash |-> b.escrowTxHash]

\* faulty variant: the cut keeps the other end of the array
Keep_Tail(arr, cap) ==
  IF Len(arr) > cap THEN SubSeq(arr, Len(arr) - cap + 1, Len(arr)) ELSE arr

\* lines 38-43: unshift, then keep the first INTAKE_CAP entries
Keep(arr, cap) == IF Len(arr) > cap THEN SubSeq(arr, 1, cap) ELSE arr

Unshift(arr, rec) == <<rec>> \o arr

InitIntake ==
  /\ intakeStore = <<>>
  /\ intakeCount = 0
  /\ intakeResp = 0

\* lines 21-55, a body that passes validation
IntakeAccept(b) ==
  /\ ~MissingFields(b)
  /\ intakeCount < MaxIntakes
  /\ intakeCount' = intakeCount + 1
  /\ intakeStore' =
       Keep(Unshift(intakeStore, Stamp(b, intakeCount + 1)), INTAKE_CAP)
  /\ intakeResp' = 200
  /\ UNCHANGED <<varsEscrow, varsWorker, walletKey, varsAux>>

\* lines 24-30, a body that fails validation
IntakeReject(b) ==
  /\ MissingFields(b)
  /\ intakeResp' = 400
  /\ UNCHANGED <<intakeStore, intakeCount>>
  /\ UNCHANGED <<varsEscrow, varsWorker, walletKey, varsAux>>

NextIntake ==
  \/ \E b \in Bodies : IntakeAccept(b)
  \/ \E b \in Bodies : IntakeReject(b)

\* ============================================================= server.js
Runs  == 1..MaxRuns
Posts == 1..MaxPosts
NoHash == <<>>

ServerBodies ==
  [senderAddress : {"", "0xA"}, destinationAddress : {"", "0xB"},
   amount : {0, 1}, feeTxHash : {"", "0xF1"}, mainTxHash : {"", "0xM1"},
   status : {"none", "pending"}]

\* lines 231-232
ServerMissingFields(b) ==
  \/ b.senderAddress = ""
  \/ b.destinationAddress = ""
  \/ b.amount = 0
  \/ b.feeTxHash = ""
  \/ b.mainTxHash = ""

\* lines 228 and 239-240: the body itself is stored, status included
ServerStamp(b, id) ==
  [id |-> id, status |-> b.status, amount |-> b.amount,
   finalTxHash |-> NoHash, error |-> "",
   verifiedAt |-> Unset, completedAt |-> Unset, failedAt |-> Unset]

\* lines 54-62: the parsed file, or an empty list when reading fails
readTransactions(ok) == IF ok THEN file ELSE <<>>

\* lines 75-102
serverVerifyTransaction(receipt, currentBlock, throws) ==
  IF throws THEN [verified |-> FALSE, status |-> "error"]
  ELSE IF ~receipt.present THEN [verified |-> FALSE, status |-> "pending"]
  ELSE IF receipt.status = 0 THEN [verified |-> FALSE, status |-> "failed"]
  ELSE IF currentBlock - receipt.blockNumber >= VERIFICATION_CONFIRMATIONS
       THEN [verified |-> TRUE, status |-> "verified"]
       ELSE [verified |-> FALSE, status |-> "confirming"]

\* line 149
Skipped(t) == t.status = "completed" \/ t.status = "failed"

\* line 176
ShouldSend(t) == t.status = "verified" /\ t.finalTxHash = NoHash

\* the for-of loop of lines 147-203 resumed at index `from`, then lines
\* 205-207: the next record to verify, else the write, else the end
FirstOpen(data, from) ==
  IF \E j \in from..Len(data) : ~Skipped(data[j])
  THEN CHOOSE j \in from..Len(data) :
         ~Skipped(data[j]) /\ \A k \in from..(j - 1) : Skipped(data[k])
  ELSE 0

IdleRun ==
  [pc |-> "idle", data |-> <<>>, i |-> 0, updated |-> FALSE,
   fee |-> NoVerification, hash |-> NoHash]

\* faulty variant: the loop ends with the first record it has dealt with
Continue_Stops(data, from, updated) ==
  IF from = 1 /\ FirstOpen(data, 1) # 0
  THEN [IdleRun EXCEPT !.pc = "verifyFee", !.data = data,
                       !.i = FirstOpen(data, 1), !.updated = updated]
  ELSE IF updated
       THEN [IdleRun EXCEPT !.pc = "writing", !.data = data,
                            !.updated = TRUE]
       ELSE [IdleRun EXCEPT !.pc = "done"]

Continue(data, from, updated) ==
  IF FirstOpen(data, from) # 0
  THEN [IdleRun EXCEPT !.pc = "verifyFee", !.data = data,
                       !.i = FirstOpen(data, from), !.updated = updated]
  ELSE IF updated
       THEN [IdleRun EXCEPT !.pc = "writing", !.data = data,
                            !.updated = TRUE]
       ELSE [IdleRun EXCEPT !.pc = "done"]

IdlePost == [pc |-> "idle", rec |-> ServerStamp(
               [senderAddress |-> "", destinationAddress |-> "",
                amount |-> 0, feeTxHash |-> "", mainTxHash |-> "",
                status |-> "none"], 0),
             data |-> <<>>]

InitWorker ==
  /\ file = <<>>
  /\ run = [r \in Runs |-> IdleRun]
  /\ post = [q \in Posts |-> IdlePost]
  /\ sendCalls = [id \in Posts |-> 0]

\* no POST /api/verify/:id request has been made
IdleManual ==
  [pc |-> "idle", id |-> 0, code |-> 0, fee |-> NoVerification,
   main |-> NoVerification]

\* verifyTransaction has not been called
NoProbe ==
  [receipt |-> NoReceipt, currentBlock |-> 0, receiptThrows |-> FALSE,
   heightThrows |-> FALSE, called |-> FALSE, result |-> NoVerification,
   serverResult |-> NoVerification]

\* no GET /api/transactions/:address request has been answered
NoListing ==
  [pc |-> "idle", code |-> 0, address |-> <<>>, transactions |-> <<>>]

InitAux ==
  /\ manual = IdleManual
  /\ probe = NoProbe
  /\ listing = NoListing

\* lines 427 and 430: the interval or the initial timeout calls
\* processTransactions, whether or not an earlier call has returned
RunStart(r) ==
  /\ run[r].pc = "idle"
  /\ \A k \in Runs : k < r => run[k].pc # "idle"
  /\ run' = [run EXCEPT ![r].pc = "reading"]
  /\ UNCHANGED <<file, post, sendCalls>>
  /\ UNCHANGED <<varsEscrow, varsIntake, walletKey, varsAux>>

\* lines 144-154
RunRead(r) ==
  /\ run[r].pc = "reading"
  /\ \E ok \in BOOLEAN :
       run' = [run EXCEPT ![r] = Continue(readTransactions(ok), 1, FALSE)]
  /\ UNCHANGED <<file, post, sendCalls>>
  /\ UNCHANGED <<varsEscrow, varsIntake, walletKey, varsAux>>

\* lines 154-157
RunFee(r) ==
  /\ run[r].pc = "verifyFee"
  /\ \E a \in ChainAnswers :
       run' = [run EXCEPT ![r].fee = serverVerifyTransaction(
                                       a.receipt, a.currentBlock, a.throws),
                          ![r].pc = "verifyMain"]
  /\ UNCHANGED <<file, post, sendCalls>>
  /\ UNCHANGED <<varsEscrow, varsIntake, walletKey, varsAux>>

\* lines 166-170
ServerMarkVerified(t) == [t EXCEPT !.status = "verified", !.verifiedAt = now]

\* lines 187-189 and 198-200
ServerMarkFailed(t, msg) ==
  [t EXCEPT !.status = "failed", !.error = msg, !.failedAt = now]

\* lines 180-182
ServerMarkCompleted(t, hash) ==
  [t EXCEPT !.status = "completed", !.finalTxHash = hash,
            !.completedAt = now]

\* lines 157-202
RunMain(r) ==
  /\ run[r].pc = "verifyMain"
  /\ \E a \in ChainAnswers :
       LET main == serverVerifyTransaction(a.receipt, a.currentBlock,
                                           a.throws)
           fee  == run[r].fee
           i    == run[r].i
           t    == run[r].data[i]
           t1   == IF t.status = "pending" THEN ServerMarkVerified(t) ELSE t
           upd  == run[r].updated \/ t.status = "pending"
       IN  IF fee.verified /\ main.verified
           THEN IF ShouldSend(t1)
                THEN /\ run' = [run EXCEPT
                           ![r].data[i] = t1, ![r].updated = upd,
                           ![r].fee = NoVerification,
                           ![r].pc = IF walletKey THEN "send" ELSE "noWallet"]
                     /\ sendCalls' = [sendCalls EXCEPT ![t.id] = @ + 1]
                ELSE /\ run' = [run EXCEPT ![r] =
                           Continue([run[r].data EXCEPT ![i] = t1], i + 1, upd)]
                     /\ UNCHANGED sendCalls
           ELSE IF fee.status = "failed" \/ main.status = "failed"
                THEN /\ run' = [run EXCEPT ![r] =
                           Continue([run[r].data EXCEPT ![i] =
                             ServerMarkFailed(t,
                               "One or more blockchain transactions failed")],
                             i + 1, TRUE)]
                     /\ UNCHANGED sendCalls
                ELSE /\ run' = [run EXCEPT ![r] =
                           Continue(run[r].data, i + 1, run[r].updated)]
                     /\ UNCHANGED sendCalls
  /\ UNCHANGED <<file, post>>
  /\ UNCHANGED <<varsEscrow, varsIntake, walletKey, varsAux>>

\* lines 186-193: sendToDestination returned success: false
SendFailed(r, msg) ==
  run' = [run EXCEPT ![r] =
            Continue([run[r].data EXCEPT ![run[r].i] = ServerMarkFailed(@, msg)],
                     run[r].i + 1, TRUE)]

\* lines 107-109 and 132-137
RunNoWallet(r) ==
  /\ run[r].pc = "noWallet"
  /\ SendFailed(r, "Admin wallet not configured")
  /\ UNCHANGED <<file, post, sendCalls>>
  /\ UNCHANGED <<varsEscrow, varsIntake, walletKey, varsAux>>

\* lines 115-119: sendTransaction is accepted or throws
RunSend(r) ==
  /\ run[r].pc = "send"
  /\ \/ run' = [run EXCEPT ![r].pc = "mined", ![r].hash = <<r, run[r].i>>]
     \/ SendFailed(r, "send rejected")
  /\ UNCHANGED <<file, post, sendCalls>>
  /\ UNCHANGED <<varsEscrow, varsIntake, walletKey, varsAux>>

\* lines 124-130 and 179-185: tx.wait() resolves, or throws
RunMined(r) ==
  /\ run[r].pc = "mined"
  /\ \/ run' = [run EXCEPT ![r] =
                  Continue([run[r].data EXCEPT ![run[r].i] =
                              ServerMarkCompleted(@, run[r].hash)],
                           run[r].i + 1, TRUE)]
     \/ SendFailed(r, "wait failed")
  /\ UNCHANGED <<file, post, sendCalls>>
  /\ UNCHANGED <<varsEscrow, varsIntake, walletKey, varsAux>>

\* lines 205-211 and 65-72: the whole list read at the start of the run
\* replaces the file, or the write throws and the run ends
RunWrite(r) ==
  /\ run[r].pc = "writing"
  /\ \/ file' = run[r].data
     \/ file' = file
  /\ run' = [run EXCEPT ![r] = [IdleRun EXCEPT !.pc = "done"]]
  /\ UNCHANGED <<post, sendCalls>>
  /\ UNCHANGED <<varsEscrow, varsIntake, walletKey, varsAux>>

\* lines 226-243: validation, id, then the read is started
PostBegin(q, b) ==
  /\ post[q].pc = "idle"
  /\ \A k \in Posts : k < q => post[k].pc # "idle"
  /\ post' = [post EXCEPT ![q] =
        IF ServerMissingFields(b)
        THEN [@ EXCEPT !.pc = "rejected"]
        ELSE [@ EXCEPT !.pc = "reading", !.rec = ServerStamp(b, q)]]
  /\ UNCHANGED <<file, run, sendCalls>>
  /\ UNCHANGED <<varsEscrow, varsIntake, walletKey, varsAux>>

\* lines 243-254
PostRead(q) ==
  /\ post[q].pc = "reading"
  /\ \E ok \in BOOLEAN :
       post' = [post EXCEPT
          ![q].data = Keep(Unshift(readTransactions(ok), post[q].rec),
                           SERVER_CAP),
          ![q].pc = "writing"]
  /\ UNCHANGED <<file, run, sendCalls>>
  /\ UNCHANGED <<varsEscrow, varsIntake, walletKey, varsAux>>

\* lines 254-270
PostWrite(q) ==
  /\ post[q].pc = "writing"
  /\ \/ file' = post[q].data /\ post' = [post EXCEPT ![q].pc = "done",
                                                     ![q].data = <<>>]
     \/ file' = file /\ post' = [post EXCEPT ![q].pc = "error",
                                             ![q].data = <<>>]
  /\ UNCHANGED <<run, sendCalls>>
  /\ UNCHANGED <<varsEscrow, varsIntake, walletKey, varsAux>>

NextWorker ==
  \/ \E r \in Runs : RunStart(r)
  \/ \E r \in Runs : RunRead(r)
  \/ \E r \in Runs : RunFee(r)
  \/ \E r \in Runs : RunMain(r)
  \/ \E r \in Runs : RunNoWallet(r)
  \/ \E r \in Runs : RunSend(r)
  \/ \E r \in Runs : RunMined(r)
  \/ \E r \in Runs : RunWrite(r)
  \/ \E q \in Posts, b \in ServerBodies : PostBegin(q, b)
  \/ \E q \in Posts : PostRead(q)
  \/ \E q \in Posts : PostWrite(q)

\* ------------------------------------------------------------------- Init
NewTransaction(id) ==
  [id |-> id, status |-> "pending", amount |-> 100 * id,
   forwardTxHash |-> 0, forwardedAmount |-> Unset, feeKept |-> Unset,
   error |-> "", verifiedAt |-> FALSE, forwardInitiatedAt |-> FALSE,
   failedAt |-> Unset, completedAt |-> Unset]

\* a request that has found its record and awaits the escrow classification
NewPass(id) ==
  [pc |-> "awaitEscrow", txId |-> id, escrow |-> NoVerification, hash |-> 0,
   value |-> 0]

NoResponse ==
  [code |-> 0, txId |-> 0, escrow |-> NoVerification,
   forward |-> NoVerification]

NoSeen == [escrowVerified |-> FALSE, escrowFailed |-> FALSE,
           forwardVerified |-> FALSE]

Init ==
  /\ transactions = [i \in 1..MaxIds |-> MaxIds + 1 - i]
  /\ tx = [id \in Ids |-> NewTransaction(id)]
  /\ passes = EmptyBag
  /\ started = 0
  /\ response = NoResponse
  /\ timers = {}
  /\ now = 0
  /\ walletKey \in BOOLEAN
  /\ forwardCalls = [id \in Ids |-> 0]
  /\ broadcasts = 0
  /\ seen = [id \in Ids |-> NoSeen]
  /\ InitIntake
  /\ InitWorker
  /\ InitAux

\* ---------------------------------------------------------------- handler
\* the invocation ps goes on as qs
Suspend(ps, qs) ==
  passes' = (passes (-) SetToBag({ps})) (+) SetToBag({qs})

\* lines 255-262: res.status(200).json(...), the invocation ps is over
Respond(ps, escrow, forward) ==
  /\ passes' = passes (-) SetToBag({ps})
  /\ response' = [code |-> 200, txId |-> ps.txId, escrow |-> escrow,
                  forward |-> forward]

\* lines 122-141: look the record up and start verifying its escrow hash,
\* or answer 404 (lines 131-133)
Trigger(id) ==
  /\ started < MaxPasses
  /\ now <= MaxTicks * TickMs
  /\ started' = started + 1
  /\ IF InStore(id)
     THEN /\ passes' = passes (+) SetToBag({NewPass(id)})
          /\ UNCHANGED response
     ELSE /\ response' = [NoResponse EXCEPT !.code = 404, !.txId = id]
          /\ UNCHANGED passes
  /\ UNCHANGED <<transactions, tx, timers, now, walletKey,
                 forwardCalls, broadcasts, seen>>
  /\ UNCHANGED <<varsIntake, varsWorker, varsAux>>

\* lines 207-262 entered with the record value t: either start verifying
\* the forward hash (line 213) or answer with forward: null
StepThree(ps, t, escrow) ==
  IF ShouldVerifyForward(t)
  THEN /\ Suspend(ps, [pc |-> "awaitForward", txId |-> ps.txId,
                       escrow |-> escrow, hash |-> 0, value |-> 0])
       /\ UNCHANGED response
  ELSE Respond(ps, escrow, NoVerification)

\* lines 64-84, the synchronous part of forwardToDestination(transaction):
\* without a wallet it throws (line 69); with one it computes the amount
\* and hands sendTransaction the value parsed from the amount's string
ForwardCall(ps, v, t) ==
  IF initializeWallet
  THEN [ps EXCEPT !.escrow = v, !.pc = "awaitSend",
                  !.value = parseEther(toString(forwardAmount(t)))]
  ELSE [ps EXCEPT !.escrow = v, !.pc = "awaitNoWallet"]

\* lines 141-176: the escrow classification arrives
ResumeEscrow(ps) ==
  /\ ps.pc = "awaitEscrow"
  /\ \E a \in ChainAnswers :
       LET v  == verifyTransaction(a.receipt, a.currentBlock, a.throws)
           id == ps.txId
           t0 == tx[id]
           t1 == IF EscrowNewlyVerified(v, t0) THEN MarkVerified(t0) ELSE t0
           t2 == IF IsFailed(v)
                 THEN MarkFailed(t1, "Escrow transaction failed on blockchain")
                 ELSE t1
           ts == IF IsFailed(v) THEN ScheduleFailedDeletion(timers, id)
                 ELSE timers
       IN  /\ timers' = ts
           /\ seen' = [seen EXCEPT
                         ![id].escrowVerified = @ \/ ChainConfirmed(a),
                         ![id].escrowFailed   = @ \/ ChainReverted(a)]
           /\ IF ShouldForward(t2)
              THEN /\ tx' = [tx EXCEPT ![id] = MarkForwarding(t2)]
                   /\ forwardCalls' = [forwardCalls EXCEPT ![id] = @ + 1]
                   /\ Suspend(ps, ForwardCall(ps, v, t2))
                   /\ UNCHANGED response
              ELSE /\ tx' = [tx EXCEPT ![id] = t2]
                   /\ forwardCalls' = forwardCalls
                   /\ StepThree(ps, t2, v)
  /\ UNCHANGED <<transactions, started, now, walletKey, broadcasts>>
  /\ UNCHANGED <<varsIntake, varsWorker, varsAux>>

\* lines 190-205 then step 3: forwardToDestination returned success: false
ForwardFailed(ps, msg) ==
  LET t == MarkFailed(tx[ps.txId], msg)
  IN  /\ tx' = [tx EXCEPT ![ps.txId] = t]
      /\ timers' = ScheduleFailedDeletion(timers, ps.txId)
      /\ StepThree(ps, t, ps.escrow)

\* lines 66-70 and 99-104: no wallet, the throw is caught
ResumeNoWallet(ps) ==
  /\ ps.pc = "awaitNoWallet"
  /\ ForwardFailed(ps, "Escrow wallet not configured")
  /\ UNCHANGED <<transactions, started, now, walletKey, forwardCalls,
                 broadcasts, seen>>
  /\ UNCHANGED <<varsIntake, varsWorker, varsAux>>

\* lines 76-84: sendTransaction is accepted (a hash exists), or it or
\* parseEther throws (lines 99-104)
ResumeSend(ps) ==
  /\ ps.pc = "awaitSend"
  /\ \/ /\ broadcasts' = broadcasts + 1
        /\ Suspend(ps, [ps EXCEPT !.pc = "awaitMined",
                                  !.hash = broadcasts + 1])
        /\ UNCHANGED <<tx, timers, response>>
     \/ /\ ForwardFailed(ps, "send rejected")
        /\ UNCHANGED broadcasts
  /\ UNCHANGED <<transactions, started, now, walletKey, forwardCalls, seen>>
  /\ UNCHANGED <<varsIntake, varsWorker, varsAux>>

\* lines 89-97 and 178-188: tx.wait() resolves, or throws (lines 99-104)
ResumeMined(ps) ==
  /\ ps.pc = "awaitMined"
  /\ \/ LET t == MarkForwardingPending(tx[ps.txId], ps.hash)
        IN  /\ tx' = [tx EXCEPT ![ps.txId] = t]
            /\ StepThree(ps, t, ps.escrow)
            /\ UNCHANGED timers
     \/ ForwardFailed(ps, "wait failed")
  /\ UNCHANGED <<transactions, started, now, walletKey, forwardCalls,
                 broadcasts, seen>>
  /\ UNCHANGED <<varsIntake, varsWorker, varsAux>>

\* lines 213-262: the forward classification arrives
ResumeForward(ps) ==
  /\ ps.pc = "awaitForward"
  /\ \E a \in ChainAnswers :
       LET v  == verifyTransaction(a.receipt, a.currentBlock, a.throws)
           id == ps.txId
           t0 == tx[id]
           t1 == IF v.verified THEN MarkCompleted(t0) ELSE t0
           t2 == IF IsFailed(v)
                 THEN MarkFailed(t1, "Forward transaction failed on blockchain")
                 ELSE t1
       IN  /\ tx' = [tx EXCEPT ![id] = t2]
           /\ timers' = IF v.verified
                        THEN ScheduleCompletedDeletion(timers, id)
                        ELSE timers
           /\ seen' = [seen EXCEPT
                         ![id].forwardVerified = @ \/ ChainConfirmed(a)]
           /\ Respond(ps, ps.escrow, v)
  /\ UNCHANGED <<transactions, started, now, walletKey, forwardCalls,
                 broadcasts>>
  /\ UNCHANGED <<varsIntake, varsWorker, varsAux>>

\* the event loop resumes one of the suspended invocations
Request        == \E id \in Ids : Trigger(id)
EscrowAnswered == \E ps \in BagToSet(passes) : ResumeEscrow(ps)
NoWalletThrown == \E ps \in BagToSet(passes) : ResumeNoWallet(ps)
SendAnswered   == \E ps \in BagToSet(passes) : ResumeSend(ps)
MinedAnswered  == \E ps \in BagToSet(passes) : ResumeMined(ps)
ForwardAnswered == \E ps \in BagToSet(passes) : ResumeForward(ps)

\* the callback of lines 160-166, 197-203 and 233-240
TimerFire(tm) ==
  /\ tm \in timers
  /\ now >= tm.due
  /\ timers' = timers \ {tm}
  /\ transactions' = RemoveById(transactions, tm.id)
  /\ UNCHANGED <<tx, passes, started, response, now, walletKey, forwardCalls,
                 broadcasts, seen>>
  /\ UNCHANGED <<varsIntake, varsWorker, varsAux>>

\* the event loop runs a callback whose delay has elapsed
FireTimer == \E tm \in timers : TimerFire(tm)

\* time passes: tick by tick while requests arrive, afterwards straight to
\* the next scheduled callback; the clock stops once nothing is scheduled
NextDue == CHOOSE d \in {tm.due : tm \in timers} :
             d > now /\ \A tm \in timers : tm.due > now => d <= tm.due

Tick ==
  /\ IF now < MaxTicks * TickMs
     THEN now' = now + TickMs
     ELSE /\ \E tm \in timers : tm.due > now
          /\ now' = NextDue
  /\ UNCHANGED <<transactions, tx, passes, started, response, timers,
                 walletKey, forwardCalls, broadcasts, seen>>
  /\ UNCHANGED <<varsIntake, varsWorker, varsAux>>

Next ==
  \/ Request
  \/ EscrowAnswered
  \/ NoWalletThrown
  \/ SendAnswered
  \/ MinedAnswered
  \/ ForwardAnswered
  \/ FireTimer
  \/ Tick

Spec == Init /\ [][Next]_vars

SpecIntake == Init /\ [][NextIntake]_vars

SpecWorker == Init /\ [][NextWorker]_vars

\* setTimeout callbacks run once their delay has elapsed, and time passes
FairSpec ==
  /\ Spec
  /\ WF_vars(Tick)
  /\ WF_vars(FireTimer)

\* ================================================================= claims
Terminal == {"completed", "failed"}

\* C1: over any number of passes for an id, sequential or interleaved at
\* their awaits, forwardToDestination is invoked at most once for that id.
AtMostOnceForward == \A id \in Ids : forwardCalls[id] <= 1

\* while one pass awaits its forward, another pass for the same id got a
\* verified escrow and has answered; one forward was made
C1Witness ==
  \E id \in Ids : \E ps \in BagToSet(passes) :
    /\ ps.txId = id
    /\ ps.pc \in {"awaitSend", "awaitMined"}
    /\ response.txId = id /\ response.escrow.verified
    /\ forwardCalls[id] = 1

\* C3: the status of a record never moves backward along pending, verified,
\* forwarding_pending, completed; it may divert to failed from a
\* non-terminal status; completed and failed are never left.
Rank(s) == CASE s = "pending"            -> 0
             [] s = "verified"           -> 1
             [] s = "forwarding"         -> 2
             [] s = "forwarding_pending" -> 3
             [] s = "completed"          -> 4
             [] OTHER                    -> 5

ForwardOnly(s, n) ==
  \/ s = n
  \/ s \notin Terminal /\ n = "failed"
  \/ s \notin Terminal /\ n # "failed" /\ Rank(s) < Rank(n)

MonotonicStatus ==
  [][\A id \in Ids : ForwardOnly(tx[id].status, tx'[id].status)]_vars

\* C4: a record has status completed only if the chain confirmed its escrow
\* hash (success, >= 3 confirmations) in some earlier call and, in another
\* call, its forward hash.
CompletedRequiresBoth ==
  \A id \in Ids :
    tx[id].status = "completed" =>
      seen[id].escrowVerified /\ seen[id].forwardVerified

C4Witness == \E id \in Ids : tx[id].status = "completed"

\* this step ends an invocation (its response is response')
Answers == BagCardinality(passes') < BagCardinality(passes)

\* this step suspends an invocation again, as qs
SuspendsAs(qs) == CopiesIn(qs, passes') > CopiesIn(qs, passes)

\* a step of an invocation whose classifications so far were all error
ErrorStep ==
  \/ /\ Answers
     /\ response'.escrow.status = "error"
     /\ response'.forward.status \in {"null", "error"}
  \/ \E qs \in BagToSet(passes') :
       SuspendsAs(qs) /\ qs.escrow.status = "error"

\* C5: a step of a pass all of whose verifyTransaction calls so far returned
\* error writes no field of any record, schedules no timer and removes
\* nothing from the store.
TransientErrorsWriteNothing ==
  [][ErrorStep =>
       (tx' = tx /\ timers' = timers /\ transactions' = transactions)]_vars

\* a whole pass on a forwarding_pending record got error for both hashes
C5Witness ==
  /\ response.code = 200
  /\ response.escrow.status = "error"
  /\ response.forward.status = "error"
  /\ tx[response.txId].status = "forwarding_pending"

\* C6: the pass that finds the escrow hash of a pending record reverted ends
\* with status failed and error set; from that classification on
\* forwardToDestination is never invoked for the record.
EscrowFailureIsFinal ==
  [][\A id \in Ids :
       /\ seen'[id].escrowFailed => forwardCalls'[id] = forwardCalls[id]
       /\ ( /\ tx[id].status = "pending"
            /\ Answers
            /\ response'.txId = id
            /\ response'.escrow.status = "failed"
            /\ response'.forward.status = "null" )
          => (tx'[id].status = "failed" /\ tx'[id].error # "")
       /\ \A qs \in BagToSet(passes') :
            (SuspendsAs(qs) /\ qs.txId = id /\ tx[id].status = "pending")
              => qs.escrow.status # "failed"]_vars

\* a later pass saw the escrow hash confirmed on a record failed by escrow
C6Witness ==
  \E id \in Ids :
    /\ seen[id].escrowFailed
    /\ response.txId = id /\ response.escrow.verified
    /\ tx[id].status = "failed"
    /\ forwardCalls[id] = 0

\* C7: every record that enters status failed is eventually removed from
\* the store, given that scheduled timers fire.
FailedEventuallyDeleted ==
  \A id \in Ids :
    (InStore(id) /\ tx[id].status = "failed") ~> ~InStore(id)

\* C8: every record that enters status completed is eventually removed from
\* the store, given that scheduled timers fire.
CompletedEventuallyDeleted ==
  \A id \in Ids :
    (InStore(id) /\ tx[id].status = "completed") ~> ~InStore(id)

\* a record completed and was later removed
C8Witness ==
  \E id \in Ids :
    ~InStore(id) /\ tx[id].status = "completed" /\ tx[id].failedAt = Unset

\* C2: processTransactions calls sendToDestination at most once per record,
\* also when runs overlap and when an intake rewrites the file during a run.
AtMostOnceSend == \A id \in Posts : sendCalls[id] <= 1

\* C9: a completed record is in the store at every instant before
\* completedAt + 60 s and a failed one before failedAt + 300 s, for the
\* timestamps the record currently carries.
RetentionLowerBound ==
  [][\A id \in Ids :
       (InStore(id) /\ ~InStore(id)') =>
         /\ tx[id].status = "completed" =>
              now >= tx[id].completedAt + COMPLETED_RETENTION_MS
         /\ tx[id].status = "failed" =>
              now >= tx[id].failedAt + FAILED_RETENTION_MS]_vars

\* C10: a record leaves a store only in status completed or failed; no
\* intake and no timer removes a pending, verified or forwarding_pending one.
IdsOf(arr) == {arr[i].id : i \in 1..Len(arr)}

StatusIn(arr, id) ==
  (CHOOSE t \in {arr[i] : i \in 1..Len(arr)} : t.id = id).status

OnlyRetentionDeletes ==
  [][/\ \A id \in Ids :
          (InStore(id) /\ ~InStore(id)') => tx[id].status \in Terminal
     /\ \A id \in IdsOf(intakeStore) \ IdsOf(intakeStore') :
          StatusIn(intakeStore, id) \in Terminal
     /\ \A id \in IdsOf(file) \ IdsOf(file') :
          StatusIn(file, id) \in Terminal]_vars

\* this step is the one in which an invocation for id, having found the
\* record (line 129), receives its escrow classification and first reads
\* the record's status (line 145)
FirstLook(id) == CopiesIn(NewPass(id), passes') < CopiesIn(NewPass(id), passes)

\* C11: a pass on a record whose status is completed or failed changes no
\* field of the record and schedules no new timer, whatever the
\* classification of its hashes.
TerminalSkipped ==
  [][\A id \in Ids :
       (tx[id].status \in Terminal /\ FirstLook(id)) =>
         (tx'[id] = tx[id] /\ timers' \subseteq timers)]_vars

\* C12: once sendTransaction has returned a hash, the invocation leaves the
\* forward with forwardTxHash equal to that hash and the status not failed,
\* also when waiting for the transaction to be mined throws.
BroadcastIsRecorded ==
  [][\A ps \in BagToSet(passes) :
       (ps.pc = "awaitMined" /\ CopiesIn(ps, passes') < CopiesIn(ps, passes))
         => /\ tx'[ps.txId].forwardTxHash = ps.hash
            /\ tx'[ps.txId].status # "failed"]_vars

InitGateway ==
  /\ transactions = <<>>
  /\ tx = [id \in Ids |-> NewTransaction(id)]
  /\ passes = EmptyBag
  /\ started = 0
  /\ response = NoResponse
  /\ timers = {}
  /\ now = 0
  /\ walletKey \in BOOLEAN
  /\ forwardCalls = [id \in Ids |-> 0]
  /\ broadcasts = 0
  /\ seen = [id \in Ids |-> NoSeen]
  /\ InitIntake
  /\ InitWorker
  /\ InitAux

NextGateway ==
  \/ \E b \in Bodies : IntakeAccept(b)
  \/ \E b \in Bodies : IntakeReject(b)
  \/ Request

SpecGateway == InitGateway /\ [][NextGateway]_vars

\* C14: a manual trigger for an id that the intake has accepted and still
\* holds finds the record and runs a pass; it does not answer not found.
TriggerFindsIntake ==
  [][(started' # started /\ passes' = passes) =>
       response'.txId \notin IdsOf(intakeStore)]_vars

\* C15: every record created by an intake endpoint has status pending at
\* creation, whatever status value (or none) the request body carried.
IntakeAssignsPending ==
  [][/\ \A id \in IdsOf(file') \ IdsOf(file) :
          StatusIn(file', id) = "pending"
     /\ \A id \in IdsOf(intakeStore') \ IdsOf(intakeStore) :
          StatusIn(intakeStore', id) = "pending"]_vars

\* ------------------------------ api/transaction.js, amounts of either sign
\* request bodies whose amount may be negative
SignedBodies ==
  [senderAddress : {"", "0xA"}, destinationAddress : {"", "0xB"},
   amount : {0 - 1, 0, 1}, escrowTxHash : {"", "0xE1"},
   status : {"none", "completed"}]

\* lines 21-55 on such a body
IntakeAcceptSigned(b) == intakeCount < MaxSigned /\ IntakeAccept(b)

NextIntakeSigned ==
  \/ \E b \in SignedBodies : IntakeAcceptSigned(b)
  \/ \E b \in SignedBodies : IntakeReject(b)

SpecIntakeSigned == Init /\ [][NextIntakeSigned]_vars

\* C16: the intake of api/transaction.js stores no request in which
\* senderAddress, destinationAddress, amount or escrowTxHash is missing or
\* empty, or in which amount is zero or negative.
IntakeValidation ==
  \A i \in 1..Len(intakeStore) :
    /\ intakeStore[i].senderAddress # ""
    /\ intakeStore[i].destinationAddress # ""
    /\ intakeStore[i].escrowTxHash # ""
    /\ intakeStore[i].amount > 0

\* this step gives an invocation for id a verified escrow classification
EscrowVerifiedNow(id) ==
  /\ FirstLook(id)
  /\ \/ \E qs \in BagToSet(passes') :
          SuspendsAs(qs) /\ qs.txId = id /\ qs.escrow.verified
     \/ Answers /\ response'.txId = id /\ response'.escrow.verified

\* C17: without ADMIN_PRIVATE_KEY, a pass on a pending record whose escrow
\* hash classifies verified ends with status failed, error set and failedAt
\* stamped; no sendTransaction call is made and the handler answers normally.
NoWalletFailsCleanly ==
  [][/\ ~walletKey => broadcasts' = 0
     /\ \A id \in Ids :
          (~walletKey /\ tx[id].status = "pending" /\ EscrowVerifiedNow(id))
            => \E qs \in BagToSet(passes') :
                 SuspendsAs(qs) /\ qs.txId = id /\ qs.pc = "awaitNoWallet"
     /\ \A ps \in BagToSet(passes) :
          (ps.pc = "awaitNoWallet"
             /\ CopiesIn(ps, passes') < CopiesIn(ps, passes))
            => /\ tx'[ps.txId].status = "failed"
               /\ tx'[ps.txId].error # ""
               /\ tx'[ps.txId].failedAt = now
               /\ Answers
               /\ response'.code = 200 /\ response'.txId = ps.txId]_vars

\* such a pass has answered
C17Witness ==
  /\ ~walletKey
  /\ response.code = 200 /\ response.escrow.verified
  /\ tx[response.txId].status = "failed"
  /\ tx[response.txId].error = "Escrow wallet not configured"
  /\ tx[response.txId].verifiedAt
  /\ broadcasts = 0

\* C18: forwardTxHash, forwardedAmount and feeKept are each assigned at most
\* once per record; once assigned, the value never changes under any later
\* sequence or interleaving of passes.
WriteOnce ==
  [][\A id \in Ids :
       /\ tx[id].forwardTxHash # 0 =>
            tx'[id].forwardTxHash = tx[id].forwardTxHash
       /\ tx[id].forwardedAmount # Unset =>
            tx'[id].forwardedAmount = tx[id].forwardedAmount
       /\ tx[id].feeKept # Unset => tx'[id].feeKept = tx[id].feeKept
       /\ \A ps \in BagToSet(passes) :
            ( /\ ps.txId = id /\ ps.pc = "awaitMined"
              /\ CopiesIn(ps, passes') < CopiesIn(ps, passes)
              /\ tx'[id].forwardTxHash = ps.hash )
            => /\ tx[id].forwardTxHash = 0
               /\ tx[id].forwardedAmount = Unset
               /\ tx[id].feeKept = Unset]_vars

\* the fields were assigned and a second pass on the record has answered
C18Witness ==
  \E id \in Ids :
    /\ tx[id].forwardTxHash # 0
    /\ tx[id].forwardedAmount # Unset
    /\ started >= 2 /\ passes = EmptyBag
    /\ response.code = 200 /\ response.txId = id

\* the ids the array of api/verify.js holds
Stored == {transactions[i] : i \in 1..Len(transactions)}

\* C20: once a record has been removed from the store, no record with that
\* id is in the store again and no later trigger for that id starts a pass
\* (it answers not found), also when an invocation on the record was
\* suspended at an await when the timer removed it.
DeletionIrreversible ==
  [][\A id \in Ids :
       id \notin Stored =>
         /\ id \notin Stored'
         /\ CopiesIn(NewPass(id), passes') <= CopiesIn(NewPass(id), passes)
         /\ (started' # started /\ passes' = passes) =>
              response'.code = 404]_vars

\* a trigger for a removed record was answered not found
C20Witness ==
  \E id \in Ids :
    /\ id \notin Stored
    /\ response.code = 404 /\ response.txId = id

\* ------------------------------------- api/verify.js under repeated polling
\* lines 122-141 for a client that asks about id again whenever its last
\* request for id has been answered, without end
Poll(id) ==
  /\ \A ps \in BagToSet(passes) : ps.txId # id
  /\ IF InStore(id)
     THEN /\ passes' = passes (+) SetToBag({NewPass(id)})
          /\ UNCHANGED response
     ELSE /\ response' = [NoResponse EXCEPT !.code = 404, !.txId = id]
          /\ UNCHANGED passes
  /\ UNCHANGED <<transactions, tx, started, timers, now, walletKey,
                 forwardCalls, broadcasts, seen>>
  /\ UNCHANGED <<varsIntake, varsWorker, varsAux>>

\* the event loop resumes the invocation for id at its await
StepOf(id) ==
  \E ps \in BagToSet(passes) :
    /\ ps.txId = id
    /\ \/ ResumeEscrow(ps)
       \/ ResumeNoWallet(ps)
       \/ ResumeSend(ps)
       \/ ResumeMined(ps)
       \/ ResumeForward(ps)

Polling == \E id \in Ids : Poll(id)

\* the record is followed while it stays in the store: no retention delay
\* elapses, the callbacks scheduled stay pending
NextPolling ==
  \/ Polling
  \/ EscrowAnswered
  \/ NoWalletThrown
  \/ SendAnswered
  \/ MinedAnswered
  \/ ForwardAnswered

\* every awaited call returns, and the client keeps asking about every id
SpecPolling ==
  /\ Init
  /\ [][NextPolling]_vars
  /\ \A id \in Ids : WF_vars(Poll(id)) /\ WF_vars(StepOf(id))

\* a step in which every classification given is verified and no forward
\* fails
GoodStep ==
  /\ \A qs \in BagToSet(passes') :
       SuspendsAs(qs) => (qs.pc = "awaitEscrow" \/ qs.escrow.verified)
  /\ Answers =>
       /\ response'.escrow.verified
       /\ response'.forward.status \in {"null", "verified"}
  /\ \A id \in Ids : tx'[id].status = "failed" => tx[id].status = "failed"

ManualBegin(id) ==
  /\ manual.pc = "idle"
  /\ manual' = [IdleManual EXCEPT !.pc = "reading", !.id = id]
  /\ UNCHANGED <<probe, listing>>
  /\ UNCHANGED <<varsEscrow, varsIntake, varsWorker, walletKey>>

\* lines 351-359: the record is looked up in what was read; 404 without it
ManualRead ==
  /\ manual.pc = "reading"
  /\ \E ok \in BOOLEAN :
       LET data == readTransactions(ok)
       IN  IF \E i \in 1..Len(data) : data[i].id = manual.id
           THEN manual' = [manual EXCEPT !.pc = "verifyFee"]
           ELSE manual' = [manual EXCEPT !.pc = "idle", !.code = 404]
  /\ UNCHANGED <<probe, listing>>
  /\ UNCHANGED <<varsEscrow, varsIntake, varsWorker, walletKey>>

\* line 362
ManualFee ==
  /\ manual.pc = "verifyFee"
  /\ \E a \in ChainAnswers :
       manual' = [manual EXCEPT
                    !.fee = serverVerifyTransaction(a.receipt, a.currentBlock,
                                                    a.throws),
                    !.pc = "verifyMain"]
  /\ UNCHANGED <<probe, listing>>
  /\ UNCHANGED <<varsEscrow, varsIntake, varsWorker, walletKey>>

\* lines 363-370: the two verifier outputs are sent back; the record is
\* not assigned to and the file is not written
ManualMain ==
  /\ manual.pc = "verifyMain"
  /\ \E a \in ChainAnswers :
       manual' = [manual EXCEPT
                    !.main = serverVerifyTransaction(a.receipt, a.currentBlock,
                                                     a.throws),
                    !.pc = "idle", !.code = 200]
  /\ UNCHANGED <<probe, listing>>
  /\ UNCHANGED <<varsEscrow, varsIntake, varsWorker, walletKey>>

ManualRequest == \E id \in Posts : ManualBegin(id)

NextManual ==
  \/ NextWorker
  \/ ManualRequest
  \/ ManualRead
  \/ ManualFee
  \/ ManualMain

SpecManual == Init /\ [][NextManual]_vars

\* the statuses in which one pass of processTransactions (lines 147-203)
\* leaves the record t when the verifier answers fee and main
PassStatuses(t, fee, main) ==
  IF Skipped(t) THEN {t.status}
  ELSE IF fee.verified /\ main.verified
       THEN IF ShouldSend(IF t.status = "pending"
                          THEN ServerMarkVerified(t) ELSE t)
            THEN {"completed", "failed"}
            ELSE {IF t.status = "pending" THEN "verified" ELSE t.status}
       ELSE IF fee.status = "failed" \/ main.status = "failed"
            THEN {"failed"}
            ELSE {t.status}

\* C21: when POST /api/verify/:id answers with its two verifier outputs,
\* the stored record is in a state in which one processTransactions pass
\* over that record, with the same two outputs, would leave it.
TriggerEqualsPass ==
  [][(manual.pc = "verifyMain" /\ manual'.pc = "idle")
       => \A i \in 1..Len(file) :
            file[i].id = manual.id
              => \E j \in 1..Len(file') :
                   /\ file'[j].id = manual.id
                   /\ file'[j].status
                        \in PassStatuses(file[i], manual'.fee, manual'.main)]_vars

\* ------------------------------------------- one call of verifyTransaction
\* what the gateway holds when verifyTransaction is called: the receipt
\* getTransactionReceipt would return, the height getBlockNumber would
\* return, and whether either call throws
ProbeReceipts ==
  {NoReceipt} \cup
  [present : {TRUE}, status : {0, 1}, blockNumber : 0..MaxBlock]

ProbeInputs ==
  [receipt : ProbeReceipts,
   currentBlock : 0..(MaxBlock + VERIFICATION_CONFIRMATIONS),
   receiptThrows : BOOLEAN, heightThrows : BOOLEAN,
   called : {FALSE}, result : {NoVerification},
   serverResult : {NoVerification}]

\* lines 37-47: getBlockNumber is called only for a receipt that is there
\* and does not report failure; the catch of line 58 takes either throw
GatewayThrows(in) ==
  \/ in.receiptThrows
  \/ in.receipt.present /\ in.receipt.status # 0 /\ in.heightThrows

InitVerifier ==
  /\ transactions = [i \in 1..MaxIds |-> MaxIds + 1 - i]
  /\ tx = [id \in Ids |-> NewTransaction(id)]
  /\ passes = EmptyBag
  /\ started = 0
  /\ response = NoResponse
  /\ timers = {}
  /\ now = 0
  /\ walletKey \in BOOLEAN
  /\ forwardCalls = [id \in Ids |-> 0]
  /\ broadcasts = 0
  /\ seen = [id \in Ids |-> NoSeen]
  /\ InitIntake
  /\ InitWorker
  /\ manual = IdleManual
  /\ listing = NoListing
  /\ probe \in ProbeInputs

\* faulty variant: the verifier notes its result on the stored records
VerifierCall_Stamps ==
  /\ ~probe.called
  /\ probe' = [probe EXCEPT
       !.called = TRUE,
       !.result = verifyTransaction(probe.receipt, probe.currentBlock,
                                    GatewayThrows(probe)),
       !.serverResult = serverVerifyTransaction(
                          probe.receipt, probe.currentBlock,
                          GatewayThrows(probe))]
  /\ tx' = [id \in DOMAIN tx |->
              [tx[id] EXCEPT !.status = probe'.result.status]]
  /\ UNCHANGED <<transactions, passes, started, response, timers, now,
                 forwardCalls, broadcasts, seen, manual, listing>>
  /\ UNCHANGED <<varsIntake, varsWorker, walletKey>>

\* api/verify.js lines 31-62 and server.js lines 75-102: the function is
\* handed the hash alone; it assigns to `provider` and to its locals
VerifierCall ==
  /\ ~probe.called
  /\ probe' = [probe EXCEPT
       !.called = TRUE,
       !.result = verifyTransaction(probe.receipt, probe.currentBlock,
                                    GatewayThrows(probe)),
       !.serverResult = serverVerifyTransaction(
                          probe.receipt, probe.currentBlock,
                          GatewayThrows(probe))]
  /\ UNCHANGED <<manual, listing>>
  /\ UNCHANGED <<varsEscrow, varsIntake, varsWorker, walletKey>>

NextVerifier == VerifierCall

SpecVerifier == InitVerifier /\ [][NextVerifier]_vars

\* the five classes as the claim words them, for a result v
ClassifiedAsStated(v) ==
  LET looked   == ~probe.receiptThrows
      success  == looked /\ probe.receipt.present /\ probe.receipt.status = 1
      measured == success /\ ~probe.heightThrows
      depth    == probe.currentBlock - probe.receipt.blockNumber
  IN  /\ v.status \in {"pending", "failed", "verified", "confirming", "error"}
      /\ v.status = "pending" <=> (looked /\ ~probe.receipt.present)
      /\ v.status = "failed"
           <=> (looked /\ probe.receipt.present /\ probe.receipt.status = 0)
      /\ v.status = "verified" <=> (measured /\ depth >= 3)
      /\ v.status = "confirming" <=> (measured /\ depth < 3)
      /\ v.status = "error"
           <=> (probe.receiptThrows \/ (success /\ probe.heightThrows))
      /\ v.verified <=> v.status = "verified"

\* C22: for every receipt lookup result and height, verifyTransaction
\* (api/verify.js and server.js) returns pending iff there is no receipt,
\* failed iff the receipt reports status 0 whatever its depth, verified iff
\* it reports success at depth >= 3, confirming iff success at depth < 3,
\* error iff a gateway call throws; exactly one class, and always a result.
VerifierClassification ==
  probe.called
    => ClassifiedAsStated(probe.result) /\ ClassifiedAsStated(probe.serverResult)

C22Witness ==
  /\ probe.called
  /\ probe.result.status = "verified"
  /\ probe.currentBlock - probe.receipt.blockNumber = 3

\* C23: a call of verifyTransaction changes no field of any record and
\* neither adds to nor removes from a store, whatever it returns.
VerifierPurity ==
  [][(~probe.called /\ probe'.called)
       => /\ tx' = tx
          /\ transactions' = transactions
          /\ intakeStore' = intakeStore
          /\ file' = file]_vars

C23Witness ==
  /\ probe.called
  /\ probe.result.status = "error"
  /\ \E id \in Ids : InStore(id) /\ tx[id] = NewTransaction(id)

\* ------------------------------ server.js: one run over a file of records
\* a record as the file holds it in each status of the lifecycle
FileRecord(id, st) ==
  [id |-> id, status |-> st, amount |-> 1,
   finalTxHash |-> IF st = "completed" THEN <<0, id>> ELSE NoHash,
   error |-> IF st = "failed" THEN "send rejected" ELSE "",
   verifiedAt |-> IF st = "pending" THEN Unset ELSE 0,
   completedAt |-> IF st = "completed" THEN 0 ELSE Unset,
   failedAt |-> IF st = "failed" THEN 0 ELSE Unset]

Files ==
  {[i \in 1..MaxList |-> FileRecord(i, st[i])] :
     st \in [1..MaxList -> {"pending", "verified", "completed", "failed"}]}

InitBatch ==
  /\ transactions = [i \in 1..MaxIds |-> MaxIds + 1 - i]
  /\ tx = [id \in Ids |-> NewTransaction(id)]
  /\ passes = EmptyBag
  /\ started = 0
  /\ response = NoResponse
  /\ timers = {}
  /\ now = 0
  /\ walletKey \in BOOLEAN
  /\ forwardCalls = [id \in Ids |-> 0]
  /\ broadcasts = 0
  /\ seen = [id \in Ids |-> NoSeen]
  /\ InitIntake
  /\ file \in Files
  /\ run = [r \in Runs |-> IdleRun]
  /\ post = [q \in Posts |-> IdlePost]
  /\ sendCalls = [id \in 1..MaxList |-> 0]
  /\ InitAux

\* one call of processTransactions, followed to its end
NextBatch ==
  \/ RunStart(1)
  \/ RunRead(1)
  \/ RunFee(1)
  \/ RunMain(1)
  \/ RunNoWallet(1)
  \/ RunSend(1)
  \/ RunMined(1)
  \/ RunWrite(1)

SpecBatch == InitBatch /\ [][NextBatch]_vars

\* the run r is done with the record it was on
LeavesRecord(r) ==
  /\ run[r].pc \in {"verifyMain", "noWallet", "send", "mined"}
  /\ run'[r] # run[r]
  /\ run'[r].pc \notin {"noWallet", "send", "mined"}

\* the later records of the list of run r that are not terminal
LaterOpen(r) ==
  {j \in (run[r].i + 1)..Len(run[r].data) : ~Skipped(run[r].data[j])}

ResponseCarriesForward ==
  [][(Answers /\ response'.code = 200)
       => /\ response'.escrow.status # "null"
          /\ tx'[response'.txId].forwardTxHash # 0
               => response'.forward.status # "null"]_vars

\* C28: whenever a record of the api/verify.js store can be observed, also
\* while a forward call is in flight, its status is one of pending,
\* verified, forwarding_pending, completed, failed.
StatusInEnum ==
  \A id \in Ids :
    InStore(id)
      => tx[id].status \in {"pending", "verified", "forwarding_pending",
                            "completed", "failed"}

\* C29: a record of api/verify.js in status forwarding_pending changes
\* status only to completed, in a pass that classifies its forwardTxHash as
\* verified, or to failed, in a pass that classifies its forwardTxHash as
\* failed; what the pass found for the escrow hash plays no part.
ForwardingPendingExits ==
  [][\A id \in Ids :
       (tx[id].status = "forwarding_pending"
          /\ tx'[id].status # "forwarding_pending")
         => /\ Answers
            /\ response'.txId = id
            /\ \/ tx'[id].status = "completed"
                    /\ response'.forward.status = "verified"
               \/ tx'[id].status = "failed"
                    /\ response'.forward.status = "failed"]_vars

\* ------------------------------ server.js: GET /api/transactions/:address
\* a senderAddress as the intake lets it through (line 231 tests only that
\* it is truthy): a string, kept as its characters, or a value of another
\* type such as a number
Strings == {<<"a">>, <<"A">>, <<"b">>}
NotAString == [string |-> FALSE, chars |-> <<>>]
Senders == [string : {TRUE}, chars : Strings] \cup {NotAString}

\* String.prototype.toLowerCase on the characters of an address
toLowerCase(s) ==
  [i \in 1..Len(s) |->
     CASE s[i] = "A" -> "a" [] s[i] = "B" -> "b" [] OTHER -> s[i]]

ListedRecord(id, st, sender) ==
  [id |-> id, status |-> st, senderAddress |-> sender]

ListedFiles ==
  UNION {{[i \in 1..n |-> ListedRecord(i, st[i], sd[i])] :
            st \in [1..n -> {"pending", "completed"}],
            sd \in [1..n -> Senders]} : n \in 0..MaxList}

InitListing ==
  /\ transactions = [i \in 1..MaxIds |-> MaxIds + 1 - i]
  /\ tx = [id \in Ids |-> NewTransaction(id)]
  /\ passes = EmptyBag
  /\ started = 0
  /\ response = NoResponse
  /\ timers = {}
  /\ now = 0
  /\ walletKey \in BOOLEAN
  /\ forwardCalls = [id \in Ids |-> 0]
  /\ broadcasts = 0
  /\ seen = [id \in Ids |-> NoSeen]
  /\ InitIntake
  /\ file \in ListedFiles
  /\ run = [r \in Runs |-> IdleRun]
  /\ post = [q \in Posts |-> IdlePost]
  /\ sendCalls = [id \in Posts |-> 0]
  /\ InitAux

\* lines 274-277: the request arrives and the file is being read
ListBegin(address) ==
  /\ listing.pc = "idle"
  /\ listing' = [NoListing EXCEPT !.pc = "reading", !.address = address]
  /\ UNCHANGED <<manual, probe>>
  /\ UNCHANGED <<varsEscrow, varsIntake, varsWorker, walletKey>>

\* lines 277-296: the filter calls toLowerCase on the senderAddress of
\* every record read; on a value without that method it throws and the
\* catch of line 290 answers 500
ListAnswer ==
  /\ listing.pc = "reading"
  /\ \E ok \in BOOLEAN :
       LET data == readTransactions(ok)
           Match(t) == toLowerCase(t.senderAddress.chars)
                         = toLowerCase(listing.address)
       IN  IF \E i \in 1..Len(data) : ~data[i].senderAddress.string
           THEN listing' = [listing EXCEPT !.pc = "idle", !.code = 500]
           ELSE listing' = [listing EXCEPT !.pc = "idle", !.code = 200,
                              !.transactions = SelectSeq(data, Match)]
  /\ UNCHANGED <<manual, probe>>
  /\ UNCHANGED <<varsEscrow, varsIntake, varsWorker, walletKey>>

ListRequest == \E address \in Strings : ListBegin(address)

NextListing ==
  \/ ListRequest
  \/ ListAnswer

SpecListing == InitListing /\ [][NextListing]_vars

\* two strings are the same up to the case of their letters
SameIgnoringCase(s, t) ==
  LET Upper(c) == CASE c = "a" -> "A" [] c = "b" -> "B" [] OTHER -> c
  IN  Len(s) = Len(t) /\ \A i \in 1..Len(s) : Upper(s[i]) = Upper(t[i])

\* C26: GET /api/transactions/:address of server.js answers with exactly
\* the stored records whose senderAddress equals the address up to case,
\* in the order of the store, terminal records included, and no others.
AddressScopedListing ==
  [][(listing.pc = "reading" /\ listing'.pc = "idle")
       => LET Mine(t) == /\ t.senderAddress.string
                         /\ SameIgnoringCase(t.senderAddress.chars,
                                             listing.address)
          IN  /\ listing'.code = 200
              /\ listing'.transactions = SelectSeq(file, Mine)]_vars

\* ------------------------------------ api/transaction.js: the id of a record
\* a request body, with or without an id field of its own
NoId == <<>>
IdBodies ==
  [senderAddress : {"", "0xA"}, destinationAddress : {"0xB"},
   amount : {1}, escrowTxHash : {"0xE1"}, status : {"none"},
   id : {NoId, <<0, 1>>}]

\* line 33: `tx_${Date.now()}_${Math.random().toString(36).substr(2, 9)}`,
\* kept as the pair of the clock and the suffix drawn
DrawnId(rnd) == <<now, rnd>>

\* lines 21 and 33-35: the body object itself is stamped; an id or status
\* it came with is overwritten
StampBody(b, id) == [b EXCEPT !.id = id, !.status = "pending"]

\* lines 21-55, a body that passes validation; the suffix is whatever
\* Math.random gives, and no stored id is consulted
IntakeAcceptDrawn(b, rnd) ==
  /\ ~MissingFields(b)
  /\ intakeCount < MaxDrawn
  /\ intakeCount' = intakeCount + 1
  /\ intakeStore' =
       Keep(Unshift(intakeStore, StampBody(b, DrawnId(rnd))), INTAKE_CAP)
  /\ intakeResp' = 200
  /\ UNCHANGED <<varsEscrow, varsWorker, walletKey, varsAux>>

\* a millisecond passes between two requests
Millisecond ==
  /\ now < MaxTicks
  /\ now' = now + 1
  /\ UNCHANGED <<transactions, tx, passes, started, response, timers,
                 forwardCalls, broadcasts, seen>>
  /\ UNCHANGED <<varsIntake, varsWorker, walletKey, varsAux>>

IntakeDrawn == \E b \in IdBodies, rnd \in 1..MaxRandom : IntakeAcceptDrawn(b, rnd)

IntakeRefused == \E b \in IdBodies : IntakeReject(b)

NextIds ==
  \/ IntakeDrawn
  \/ IntakeRefused
  \/ Millisecond

SpecIds == Init /\ [][NextIds]_vars

\* the part of C27 that concerns records already stored: an intake puts
\* its record in front and leaves every stored record, id included, as it
\* was, and the new record carries the id the server drew at that moment
IdsKept ==
  [][intakeStore' # intakeStore
       => /\ Len(intakeStore') = Len(intakeStore) + 1
          /\ \A i \in 1..Len(intakeStore) : intakeStore'[i + 1] = intakeStore[i]
          /\ intakeStore'[1].id[1] = now]_vars

\* C27: no two records of the store ever carry the same id (ids are
\* assigned by the server, whatever id the body came with).
IdsUnique ==
  \A i, j \in 1..Len(intakeStore) :
    i # j => intakeStore[i].id # intakeStore[j].id

\* ------------------- api/health.js, second export: the two-hash handler
\* a record as this handler expects it: feeTxHash, mainTxHash, no
\* finalTxHash yet
TwoHashRecord(id) ==
  [id |-> id, status |-> "pending", amount |-> 100 * id, finalTxHash |-> 0,
   error |-> "", verifiedAt |-> FALSE, completedAt |-> Unset,
   failedAt |-> Unset]

\* a request that has found its record and awaits the fee classification
TwoHashPass(id) ==
  [pc |-> "awaitFee", txId |-> id, fee |-> NoVerification,
   main |-> NoVerification, hash |-> 0]

\* lines 57-86
twoHashVerifyTransaction(receipt, currentBlock, throws) ==
  IF throws THEN [verified |-> FALSE, status |-> "error"]
  ELSE IF ~receipt.present THEN [verified |-> FALSE, status |-> "pending"]
  ELSE IF receipt.status = 0 THEN [verified |-> FALSE, status |-> "failed"]
  ELSE IF currentBlock - receipt.blockNumber >= VERIFICATION_CONFIRMATIONS
       THEN [verified |-> TRUE, status |-> "verified"]
       ELSE [verified |-> FALSE, status |-> "confirming"]

InitTwoHash ==
  /\ transactions = [i \in 1..MaxIds |-> MaxIds + 1 - i]
  /\ tx = [id \in Ids |-> TwoHashRecord(id)]
  /\ passes = EmptyBag
  /\ started = 0
  /\ response = NoResponse
  /\ timers = {}
  /\ now = 0
  /\ walletKey \in BOOLEAN
  /\ forwardCalls = [id \in Ids |-> 0]
  /\ broadcasts = 0
  /\ seen = [id \in Ids |-> NoSeen]
  /\ InitIntake
  /\ file = <<>>
  /\ run = [r \in Runs |-> IdleRun]
  /\ post = [q \in Posts |-> IdlePost]
  /\ sendCalls = [id \in Ids |-> 0]
  /\ InitAux

\* lines 205-210: the answer; the invocation ps is over
TwoHashRespond(ps, fee, main) ==
  /\ passes' = passes (-) SetToBag({ps})
  /\ response' = [code |-> 200, txId |-> ps.txId, escrow |-> fee,
                  forward |-> main]

\* lines 135-151: look the record up and start verifying its fee hash, or
\* answer 404 (lines 146-148)
TwoHashTrigger(id) ==
  /\ started < MaxPasses
  /\ now <= MaxTicks * TickMs
  /\ started' = started + 1
  /\ IF InStore(id)
     THEN /\ passes' = passes (+) SetToBag({TwoHashPass(id)})
          /\ UNCHANGED response
     ELSE /\ response' = [NoResponse EXCEPT !.code = 404, !.txId = id]
          /\ UNCHANGED passes
  /\ UNCHANGED <<transactions, tx, timers, now, walletKey, forwardCalls,
                 broadcasts, seen>>
  /\ UNCHANGED <<varsIntake, varsWorker, varsAux>>

\* lines 151-152: the fee classification arrives, the main hash is asked
TwoHashFee(ps) ==
  /\ ps.pc = "awaitFee"
  /\ \E a \in ChainAnswers :
       Suspend(ps, [ps EXCEPT
                      !.pc = "awaitMain",
                      !.fee = twoHashVerifyTransaction(
                                a.receipt, a.currentBlock, a.throws)])
  /\ UNCHANGED <<transactions, tx, started, response, timers, now, walletKey,
                 forwardCalls, broadcasts, seen>>
  /\ UNCHANGED <<varsIntake, varsWorker, varsAux>>

\* lines 158-162
TwoHashMarkVerified(t) ==
  IF t.status = "pending"
  THEN [t EXCEPT !.status = "verified", !.verifiedAt = TRUE]
  ELSE t

\* line 165: the test made before sendToDestination is called; nothing is
\* written to the record between this test and the end of the call
TwoHashShouldSend(t) == t.status = "verified" /\ t.finalTxHash = 0

\* lines 185-187 and 191-193
TwoHashMarkFailed(t, msg) ==
  [t EXCEPT !.status = "failed", !.error = msg, !.failedAt = now]

\* lines 169-171
TwoHashMarkCompleted(t, hash) ==
  [t EXCEPT !.status = "completed", !.finalTxHash = hash, !.completedAt = now]

\* lines 152-210: the main classification arrives
TwoHashMain(ps) ==
  /\ ps.pc = "awaitMain"
  /\ \E a \in ChainAnswers :
       LET main == twoHashVerifyTransaction(a.receipt, a.currentBlock,
                                            a.throws)
           fee  == ps.fee
           id   == ps.txId
           t1   == TwoHashMarkVerified(tx[id])
       IN  IF fee.verified /\ main.verified
           THEN /\ tx' = [tx EXCEPT ![id] = t1]
                /\ UNCHANGED timers
                /\ IF TwoHashShouldSend(t1)
                   THEN /\ sendCalls' = [sendCalls EXCEPT ![id] = @ + 1]
                        /\ Suspend(ps, [ps EXCEPT
                             !.main = main,
                             !.pc = IF initializeWallet THEN "awaitSend"
                                    ELSE "awaitNoWallet"])
                        /\ UNCHANGED response
                   ELSE /\ TwoHashRespond(ps, fee, main)
                        /\ UNCHANGED sendCalls
           ELSE IF fee.status = "failed" \/ main.status = "failed"
                THEN /\ tx' = [tx EXCEPT ![id] = TwoHashMarkFailed(@,
                           "One or more blockchain transactions failed")]
                     /\ timers' = ScheduleFailedDeletion(timers, id)
                     /\ TwoHashRespond(ps, fee, main)
                     /\ UNCHANGED sendCalls
                ELSE /\ TwoHashRespond(ps, fee, main)
                     /\ UNCHANGED <<tx, timers, sendCalls>>
  /\ UNCHANGED <<transactions, started, now, walletKey, forwardCalls,
                 broadcasts, seen>>
  /\ UNCHANGED <<varsIntake, file, run, post, varsAux>>

\* lines 184-188: sendToDestination has returned success false
TwoHashSendFailed(ps, msg) ==
  /\ tx' = [tx EXCEPT ![ps.txId] = TwoHashMarkFailed(@, msg)]
  /\ TwoHashRespond(ps, ps.fee, ps.main)
  /\ UNCHANGED <<transactions, started, timers, now, walletKey, forwardCalls,
                 broadcasts, seen>>
  /\ UNCHANGED <<varsIntake, varsWorker, varsAux>>

\* lines 90-94 and 114-120
TwoHashNoWallet(ps) ==
  /\ ps.pc = "awaitNoWallet"
  /\ TwoHashSendFailed(ps, "Admin wallet not configured")

\* lines 98-104: sendTransaction is accepted, or throws
TwoHashSend(ps) ==
  /\ ps.pc = "awaitSend"
  /\ \/ /\ Suspend(ps, [ps EXCEPT !.pc = "awaitMined",
                                  !.hash = broadcasts + 1])
        /\ broadcasts' = broadcasts + 1
        /\ UNCHANGED <<transactions, tx, started, response, timers, now,
                       walletKey, forwardCalls, seen>>
        /\ UNCHANGED <<varsIntake, varsWorker, varsAux>>
     \/ TwoHashSendFailed(ps, "send rejected")

\* lines 106-112 and 168-182: tx.wait() resolves, or throws
TwoHashMined(ps) ==
  /\ ps.pc = "awaitMined"
  /\ \/ /\ tx' = [tx EXCEPT ![ps.txId] = TwoHashMarkCompleted(@, ps.hash)]
        /\ timers' = ScheduleCompletedDeletion(timers, ps.txId)
        /\ TwoHashRespond(ps, ps.fee, ps.main)
        /\ UNCHANGED <<transactions, started, now, walletKey, forwardCalls,
                       broadcasts, seen>>
        /\ UNCHANGED <<varsIntake, varsWorker, varsAux>>
     \/ TwoHashSendFailed(ps, "wait failed")

TwoHashRequest == \E id \in Ids : TwoHashTrigger(id)
TwoHashFeeAnswered == \E ps \in BagToSet(passes) : TwoHashFee(ps)
TwoHashMainAnswered == \E ps \in BagToSet(passes) : TwoHashMain(ps)
TwoHashNoWalletThrown == \E ps \in BagToSet(passes) : TwoHashNoWallet(ps)
TwoHashSendAnswered == \E ps \in BagToSet(passes) : TwoHashSend(ps)
TwoHashMinedAnswered == \E ps \in BagToSet(passes) : TwoHashMined(ps)

NextTwoHash ==
  \/ TwoHashRequest
  \/ TwoHashFeeAnswered
  \/ TwoHashMainAnswered
  \/ TwoHashNoWalletThrown
  \/ TwoHashSendAnswered
  \/ TwoHashMinedAnswered
  \/ FireTimer
  \/ Tick

SpecTwoHash == InitTwoHash /\ [][NextTwoHash]_vars

\* C30: in the two-hash verify handler of api/health.js, sendToDestination
\* is invoked at most once per transaction id, however the requests for
\* that id interleave at their awaits.
AtMostOnceSendTwoHash == \A id \in Ids : sendCalls[id] <= 1

\* -------------- server.js: an intake and a run over a file that holds a record
\* the id of the record the file already holds
StoredId == 0

InitRace ==
  /\ transactions = [i \in 1..MaxIds |-> MaxIds + 1 - i]
  /\ tx = [id \in Ids |-> NewTransaction(id)]
  /\ passes = EmptyBag
  /\ started = 0
  /\ response = NoResponse
  /\ timers = {}
  /\ now = 0
  /\ walletKey \in BOOLEAN
  /\ forwardCalls = [id \in Ids |-> 0]
  /\ broadcasts = 0
  /\ seen = [id \in Ids |-> NoSeen]
  /\ InitIntake
  /\ file = <<FileRecord(StoredId, "pending")>>
  /\ run = [r \in Runs |-> IdleRun]
  /\ post = [q \in Posts |-> IdlePost]
  /\ sendCalls = [id \in Posts \cup {StoredId} |-> 0]
  /\ InitAux

SpecRace == InitRace /\ [][NextWorker]_vars

\* how far a record of the file has come
FileRank(s) == CASE s = "verified"  -> 1
                 [] s = "completed" -> 2
                 [] s = "failed"    -> 2
                 [] OTHER           -> 0

\* the record t of the file is still there after the step, no further back
StillThere(t) ==
  \E j \in 1..Len(file') :
    file'[j].id = t.id /\ FileRank(file'[j].status) >= FileRank(t.status)

\* C31: a record that POST /api/transaction has written is still in the
\* file after a run that was in progress writes its result, and a status
\* transition a run has written is still in the file after an intake that
\* had read the file completes its own write.
NoLostIntake ==
  [][/\ \A r \in Runs :
          (run[r].pc = "writing" /\ run'[r].pc = "done")
            => \A i \in 1..Len(file) : StillThere(file[i])
     /\ \A q \in Posts :
          (post[q].pc = "writing" /\ post'[q].pc = "done"
             /\ Len(post[q].data) > 1)
            => \A i \in 1..Len(file) : StillThere(file[i])]_vars

\* C32: in every reachable state of the api/verify.js store, a record with
\* error or failedAt set has status failed.
FailureFieldsImplyFailed ==
  \A id \in Ids :
    (InStore(id) /\ (tx[id].error # "" \/ tx[id].failedAt # Unset))
      => tx[id].status = "failed"

\* C33: once failedAt and error of a record of api/verify.js have been set,
\* no later pass writes them again.
FailureStampWriteOnce ==
  [][\A id \in Ids :
       (tx[id].failedAt # Unset /\ tx[id].error # "")
         => /\ tx'[id].failedAt = tx[id].failedAt
            /\ tx'[id].error = tx[id].error]_vars

\* C34: in every reachable state of the api/verify.js store, forwardTxHash,
\* forwardedAmount, feeKept and forwardInitiatedAt of a record are all set
\* or all unset; all set when its status is forwarding_pending or
\* completed, all unset when it is pending, verified or forwarding.
ForwardFieldsConsistent ==
  \A id \in Ids :
    InStore(id) =>
      LET t      == tx[id]
          allSet == /\ t.forwardTxHash # 0
                    /\ t.forwardedAmount # Unset
                    /\ t.feeKept # Unset
                    /\ t.forwardInitiatedAt
          noneSet == /\ t.forwardTxHash = 0
                     /\ t.forwardedAmount = Unset
                     /\ t.feeKept = Unset
                     /\ ~t.forwardInitiatedAt
      IN  /\ allSet \/ noneSet
          /\ t.status \in {"forwarding_pending", "completed"} => allSet
          /\ t.status \in {"pending", "verified", "forwarding"} => noneSet

\* a completed record carries the four fields, and a forward is awaited
\* for a record that carries none
C34Witness ==
  \E id \in Ids :
    /\ InStore(id)
    /\ tx[id].status = "completed"
    /\ tx[id].forwardTxHash # 0
    /\ tx[id].feeKept # Unset

StoreBoundAndEviction ==
  [][intakeCount' # intakeCount
       => /\ Len(intakeStore') <= 50
          /\ Len(intakeStore') =
               IF Len(intakeStore) < 50 THEN Len(intakeStore) + 1 ELSE 50
          /\ intakeStore'[1].id = intakeCount'
          /\ \A i \in 2..Len(intakeStore') :
               intakeStore'[i] = intakeStore[i - 1]
          /\ \A i, j \in 1..Len(intakeStore') :
               i < j => intakeStore'[i].id > intakeStore'[j].id]_vars

\* the store is full and its oldest record has been dropped
C36Witness ==
  /\ Len(intakeStore) = 50
  /\ intakeCount > 50
  /\ intakeStore[1].id = intakeCount
  /\ intakeStore[50].id = intakeCount - 49

\* ------------------------- api/verify.js: the deletion timers of a full store
StoredIds == 1..MaxStored

\* the callbacks that can be pending: one per id and delay, set at time 0
PendingTimers ==
  [id : StoredIds, due : {COMPLETED_RETENTION_MS, FAILED_RETENTION_MS}]

\* the record behind a set of pending callbacks: completed when the 60 s
\* callback of lines 233-240 is pending, failed when only a 300 s one is
TimedRecord(id, ts) ==
  IF [id |-> id, due |-> COMPLETED_RETENTION_MS] \in ts
  THEN [NewTransaction(id) EXCEPT
          !.status = "completed", !.verifiedAt = TRUE, !.forwardTxHash = id,
          !.forwardedAmount = forwardAmount(NewTransaction(id)),
          !.feeKept = feeAmount(NewTransaction(id)),
          !.forwardInitiatedAt = TRUE, !.completedAt = 0]
  ELSE IF [id |-> id, due |-> FAILED_RETENTION_MS] \in ts
       THEN [NewTransaction(id) EXCEPT
               !.status = "failed", !.failedAt = 0,
               !.error = "Escrow transaction failed on blockchain"]
       ELSE NewTransaction(id)

\* the store holds every record, in any order
StoreOrders ==
  {arr \in [StoredIds -> StoredIds] :
     \A i, j \in StoredIds : i # j => arr[i] # arr[j]}

InitTimers ==
  /\ transactions \in StoreOrders
  /\ timers \in SUBSET PendingTimers
  /\ tx = [id \in StoredIds |-> TimedRecord(id, timers)]
  /\ passes = EmptyBag
  /\ started = 0
  /\ response = NoResponse
  /\ now = 0
  /\ walletKey \in BOOLEAN
  /\ forwardCalls = [id \in StoredIds |-> 0]
  /\ broadcasts = 0
  /\ seen = [id \in StoredIds |-> NoSeen]
  /\ InitIntake
  /\ InitWorker
  /\ InitAux

NextTimers ==
  \/ FireTimer
  \/ Tick

SpecTimers == InitTimers /\ [][NextTimers]_vars

\* the callback that ran in the step
Fired == CHOOSE tm \in timers : tm \notin timers'

\* C37: when a deletion timer scheduled for id X fires, it removes at most
\* one record, that record has id X, every other record keeps its content
\* and its place relative to the others, and with no record of id X in the
\* store the firing changes nothing, also when several timers were
\* scheduled for the same id.
TimerTouchesOwnRecord ==
  [][timers' # timers
       => /\ tx' = tx
          /\ IF \E k \in 1..Len(transactions) : transactions[k] = Fired.id
             THEN \E k \in 1..Len(transactions) :
                    /\ transactions[k] = Fired.id
                    /\ Len(transactions') = Len(transactions) - 1
                    /\ \A i \in 1..Len(transactions') :
                         transactions'[i] =
                           IF i < k THEN transactions[i]
                           ELSE transactions[i + 1]
             ELSE transactions' = transactions]_vars

\* the first timer of a record has removed it, a second timer for the same
\* id is still pending, and another record is in the store
C37Witness ==
  \E tm \in timers :
    /\ \A k \in 1..Len(transactions) : transactions[k] # tm.id
    /\ tm.due = FAILED_RETENTION_MS
    /\ now >= COMPLETED_RETENTION_MS
    /\ Len(transactions) = MaxStored - 1

====
